---- MODULE Spec2Model ----
(***************************************************************************)
(* Model of the two trading-decision scripts of the repository:            *)
(*   trading_system.py  (v2.1, dual-axis buy_score / sell_score)           *)
(*   stock_trader.py    (v1.2, single signed score, fetch with retries)    *)
(*                                                                         *)
(* Floating-point values are modelled as fixed-point numbers: a value is a *)
(* record [k, v] where k is "num" (v counts units of 1/SCALE), "nan" (an   *)
(* undefined pandas value) or "inf" (v is the sign).  Comparisons follow   *)
(* IEEE/numpy: every ordering comparison with NaN is False, NaN != x is    *)
(* True.  Divisions truncate to the model's resolution.                    *)
(***************************************************************************)
EXTENDS Integers, Sequences, FiniteSets, TLC

VARIABLES prog, pc, attempt, sleeps, calls, series, df, signals, out

vars == <<prog, pc, attempt, sleeps, calls, series, df, signals, out>>

\* ------------------------------------------------------------------ bounds

\* fixed-point resolution: one unit is 1/SCALE
SCALE == 1000
\* longest series the provider returns (the largest window, 60, must fill)
MaxBars == 61

\* ------------------------------------------------------ program constants

max_retries == 5
RSI_PERIOD == 14
ATR_PERIOD == 14
KDJ_N == 9
MA_SHORT == 5
MA_MID == 20
MA_LONG == 60
EMA_FAST == 12
EMA_SLOW == 26
EMA_SIGNAL == 9
ACCOUNT_SIZE == 100000
RISK_PERCENT == 2

\* ------------------------------------------------------------ float model

Num(x) == [k |-> "num", v |-> x]
NaN == [k |-> "nan", v |-> 0]
Inf(sign) == [k |-> "inf", v |-> sign]
F(n) == Num(n * SCALE)

IsNum(a) == a.k = "num"
IsNaN(a) == a.k = "nan"
Ext(a) == IF a.k = "inf" THEN a.v * 2000000000 ELSE a.v

Gt(a, b) == ~IsNaN(a) /\ ~IsNaN(b) /\ Ext(a) > Ext(b)
Lt(a, b) == ~IsNaN(a) /\ ~IsNaN(b) /\ Ext(a) < Ext(b)
Ge(a, b) == ~IsNaN(a) /\ ~IsNaN(b) /\ Ext(a) >= Ext(b)
Le(a, b) == ~IsNaN(a) /\ ~IsNaN(b) /\ Ext(a) <= Ext(b)
Ne(a, b) == IsNaN(a) \/ IsNaN(b) \/ Ext(a) # Ext(b)

Sgn(x) == IF x > 0 THEN 1 ELSE IF x < 0 THEN -1 ELSE 0
Abs(x) == IF x < 0 THEN -x ELSE x
\* integer division truncating toward zero, as the fixed-point rounding
TruncDiv(x, y) == Sgn(x) * Sgn(y) * (Abs(x) \div Abs(y))

Add(a, b) ==
    IF IsNaN(a) \/ IsNaN(b) THEN NaN
    ELSE IF a.k = "inf" /\ b.k = "inf" THEN (IF a.v = b.v THEN a ELSE NaN)
    ELSE IF a.k = "inf" THEN a
    ELSE IF b.k = "inf" THEN b
    ELSE Num(a.v + b.v)

Neg(a) == IF IsNaN(a) THEN NaN ELSE IF a.k = "inf" THEN Inf(-a.v) ELSE Num(-a.v)
Sub(a, b) == Add(a, Neg(b))

\* x / y in units of 1/SCALE, truncated toward zero: the quotient of
\* x * SCALE by y, computed from the integer quotient and the remainder
FixDiv(x, y) ==
    LET ax == Abs(x)
        ay == Abs(y)
    IN  Sgn(x) * Sgn(y) * ((ax \div ay) * SCALE + ((ax % ay) * SCALE) \div ay)

\* numpy float division: x/0 is +-inf, 0/0 is nan, nothing is raised
Div(a, b) ==
    IF IsNaN(a) \/ IsNaN(b) THEN NaN
    ELSE IF a.k = "inf" THEN (IF b.k = "inf" THEN NaN
                               ELSE Inf(a.v * (IF b.v < 0 THEN -1 ELSE 1)))
    ELSE IF b.k = "inf" THEN Num(0)
    ELSE IF b.v = 0 THEN (IF a.v = 0 THEN NaN ELSE Inf(Sgn(a.v)))
    ELSE Num(FixDiv(a.v, b.v))

\* multiplication by an integer literal
MulInt(a, n) ==
    IF IsNaN(a) THEN NaN
    ELSE IF a.k = "inf" THEN (IF n = 0 THEN NaN ELSE Inf(a.v * Sgn(n)))
    ELSE Num(a.v * n)

\* the float literals 1.5, 0.2, 0.8, 0.05
Lit_1_5 == Num((15 * SCALE) \div 10)
Lit_0_2 == Num((2 * SCALE) \div 10)
Lit_0_8 == Num((8 * SCALE) \div 10)
Lit_0_5 == Num((5 * SCALE) \div 10)

\* --------------------------------------------------- trading_system.py

\* a variant of analyze_trend whose comparisons are not strict
analyze_trend_ties(ma5, ma20, ma60) ==
    IF Ge(ma5, ma20) /\ Ge(ma20, ma60) THEN "StrongUp"
    ELSE IF Ge(ma5, ma20) THEN "Up"
    ELSE IF Le(ma5, ma20) /\ Le(ma20, ma60) THEN "StrongDown"
    ELSE IF Le(ma5, ma20) THEN "Down"
    ELSE "Sideways"

\* analyze_trend: chained strict comparisons on the three moving averages
analyze_trend(ma5, ma20, ma60) ==
    IF Gt(ma5, ma20) /\ Gt(ma20, ma60) THEN "StrongUp"
    ELSE IF Gt(ma5, ma20) THEN "Up"
    ELSE IF Lt(ma5, ma20) /\ Lt(ma20, ma60) THEN "StrongDown"
    ELSE IF Lt(ma5, ma20) THEN "Down"
    ELSE "Sideways"

\* calculate_position_size: int(account_size * (risk_percent / 100) / atr).
\* int() of a NaN raises ValueError, int() of an infinity raises
\* OverflowError; otherwise int() truncates toward zero.
calculate_position_size(atr) ==
    LET risk_amount == Num((ACCOUNT_SIZE * RISK_PERCENT * SCALE) \div 100)
        position_size == Div(risk_amount, atr)
    IN  IF IsNaN(position_size) THEN [raised |-> "ValueError", size |-> 0]
        ELSE IF position_size.k = "inf" THEN [raised |-> "OverflowError", size |-> 0]
        ELSE [raised |-> "none", size |-> TruncDiv(position_size.v, SCALE)]

\* vol_ratio = latest_vol / vol_ma.iloc[-1] if vol_ma.iloc[-1] > 0 else 1
VolRatio(row) ==
    IF Gt(row.Volume_MA20, F(0)) THEN Div(row.Volume, row.Volume_MA20) ELSE F(1)

Pts(b, s) == [buy |-> b, sell |-> s]

\* the scoring rules of generate_signal, one operator per block
RuleRSI(row) ==
    IF Lt(row.RSI, F(30)) THEN Pts(20, 0)
    ELSE IF Lt(row.RSI, F(40)) THEN Pts(10, 0)
    ELSE IF Gt(row.RSI, F(70)) THEN Pts(0, 20)
    ELSE IF Gt(row.RSI, F(60)) THEN Pts(0, 10)
    ELSE Pts(0, 0)

\* a variant of the MACD rule that nets the two axes against each other
RuleMACDNetted(row) ==
    IF Gt(row.MACD_Hist, F(0)) THEN Pts(15, -15) ELSE Pts(-15, 15)

RuleMACD(row) ==
    IF Gt(row.MACD_Hist, F(0)) THEN Pts(15, 0) ELSE Pts(0, 15)

RuleKDJZone(row) ==
    IF Lt(row.K, F(20)) \/ Lt(row.J, F(0)) THEN Pts(15, 0)
    ELSE IF Gt(row.K, F(80)) \/ Gt(row.J, F(100)) THEN Pts(0, 15)
    ELSE Pts(0, 0)

RuleKDJCross(row) ==
    IF Gt(row.K, row.D) THEN Pts(10, 0) ELSE Pts(0, 10)

\* a variant of the moving-average rule that skips undefined averages
RuleMASkipsUndefined(row) ==
    IF IsNaN(row.MA5) \/ IsNaN(row.MA20) THEN Pts(0, 0)
    ELSE IF Gt(row.MA5, row.MA20) THEN Pts(10, 0)
    ELSE Pts(0, 10)

RuleMA(row) ==
    IF Gt(row.MA5, row.MA20) THEN Pts(10, 0) ELSE Pts(0, 10)

RuleVolume(row, prevClose) ==
    IF Gt(VolRatio(row), Lit_1_5)
    THEN (IF Gt(row.Close, prevClose) THEN Pts(10, 0) ELSE Pts(0, 10))
    ELSE Pts(0, 0)

RuleTrend(row) ==
    LET trend == analyze_trend(row.MA5, row.MA20, row.MA60)
    IN  IF trend = "StrongUp" THEN Pts(10, 0)
        ELSE IF trend = "StrongDown" THEN Pts(0, 10)
        ELSE IF trend = "Up" THEN Pts(5, 0)
        ELSE IF trend = "Down" THEN Pts(0, 5)
        ELSE Pts(0, 0)

RuleBoll(row) ==
    IF Lt(row.Close, row.BB_lower) THEN Pts(5, 0)
    ELSE IF Gt(row.Close, row.BB_upper) THEN Pts(0, 5)
    ELSE Pts(0, 0)

\* the rules in source order; rule 6 also reads close.iloc[-2]
DualRule(i, row, prevClose) ==
    CASE i = 1 -> RuleRSI(row)
      [] i = 2 -> RuleMACD(row)
      [] i = 3 -> RuleKDJZone(row)
      [] i = 4 -> RuleKDJCross(row)
      [] i = 5 -> RuleMA(row)
      [] i = 6 -> RuleVolume(row, prevClose)
      [] i = 7 -> RuleTrend(row)
      [] i = 8 -> RuleBoll(row)

DualRules == 1..8

RECURSIVE SumPts(_, _, _, _)
SumPts(rules, row, prevClose, axis) ==
    IF rules = {} THEN 0
    ELSE LET i == CHOOSE x \in rules : TRUE
         IN  DualRule(i, row, prevClose)[axis]
               + SumPts(rules \ {i}, row, prevClose, axis)

\* a variant of the dual-axis bands with strict comparisons: the band edges
\* 35 and 55 fall through
DualDecisionGap(buy_score, sell_score) ==
    IF buy_score > 55 THEN "StrongBuy"
    ELSE IF buy_score > 35 /\ buy_score < 55 THEN "Buy"
    ELSE IF sell_score > 55 THEN "StrongSell"
    ELSE IF sell_score > 35 /\ sell_score < 55 THEN "Sell"
    ELSE "Hold"

\* the decision bands of generate_signal, buy side first
DualDecision(buy_score, sell_score) ==
    IF buy_score >= 55 THEN "StrongBuy"
    ELSE IF buy_score >= 35 THEN "Buy"
    ELSE IF sell_score >= 55 THEN "StrongSell"
    ELSE IF sell_score >= 35 THEN "Sell"
    ELSE "Hold"

RiskLevel(row) ==
    IF Gt(row.RSI, F(70)) \/ Lt(row.RSI, F(30)) THEN "High"
    ELSE IF Gt(Div(row.ATR, row.Close), Num((5 * SCALE) \div 100)) THEN "Medium"
    ELSE "Low"

NoOut ==
    [raised |-> "unset", buy_score |-> 0, sell_score |-> 0, score |-> 0,
     reasons |-> <<>>, size |-> 0, decision |-> "unset", trend |-> "unset",
     risk |-> "unset"]

\* generate_signal on a frame d = [len, latest, prev]: the scoring block, then
\* calculate_position_size (which may raise), then the decision and the record
generate_signal(d) ==
    LET row == d.latest
        needsPrev == Gt(VolRatio(row), Lit_1_5)
        prevClose == IF d.len >= 2 THEN d.prev.Close ELSE NaN
        buy == SumPts(DualRules, row, prevClose, "buy")
        sell == SumPts(DualRules, row, prevClose, "sell")
        pos == calculate_position_size(row.ATR)
        trend == analyze_trend(row.MA5, row.MA20, row.MA60)
    IN  IF needsPrev /\ d.len < 2
        THEN [NoOut EXCEPT !.raised = "IndexError", !.trend = trend]
        ELSE IF pos.raised # "none"
        THEN [NoOut EXCEPT !.raised = pos.raised, !.buy_score = buy,
                           !.sell_score = sell, !.trend = trend]
        ELSE [NoOut EXCEPT !.raised = "none", !.buy_score = buy,
                           !.sell_score = sell, !.size = pos.size,
                           !.trend = trend,
                           !.decision = DualDecision(buy, sell),
                           !.risk = RiskLevel(row)]

\* ----------------------------------------------------- stock_trader.py

\* analyze_signals on a frame d = [len, latest, prev]; prev = df.iloc[-2]
\* raises IndexError on a one-row frame
analyze_signals(d) ==
    LET latest == d.latest
        prev == d.prev
        macd_cross ==
            IF Le(prev.MACD, prev.Signal) /\ Gt(latest.MACD, latest.Signal)
            THEN "GOLDEN"
            ELSE IF Ge(prev.MACD, prev.Signal) /\ Lt(latest.MACD, latest.Signal)
            THEN "DEAD"
            ELSE "NONE"
        ma_arrange ==
            IF Gt(latest.MA5, latest.MA20) /\ Gt(latest.MA20, latest.MA60)
            THEN "BULL"
            ELSE IF Lt(latest.MA5, latest.MA20) /\ Lt(latest.MA20, latest.MA60)
            THEN "BEAR"
            ELSE "NEUTRAL"
    IN  IF d.len < 2 THEN [raised |-> "IndexError"]
        ELSE [raised |-> "none",
              RSI |-> latest.RSI,
              MACD |-> latest.MACD,
              MACD_Cross |-> macd_cross,
              MA5 |-> latest.MA5,
              MA20 |-> latest.MA20,
              MA60 |-> latest.MA60,
              MA_Arrange |-> ma_arrange,
              BB_position |->
                  IF Ne(latest.BB_upper, latest.BB_lower)
                  THEN Div(Sub(latest.Close, latest.BB_lower),
                           Sub(latest.BB_upper, latest.BB_lower))
                  ELSE Lit_0_5,
              Volume_Ratio |->
                  IF Gt(latest.Volume_MA20, F(0))
                  THEN Div(latest.Volume, latest.Volume_MA20)
                  ELSE F(1),
              Price_Change |->
                  MulInt(Div(Sub(latest.Close, latest.Open), latest.Open), 100)]

Vote(w, r) == [w |-> w, reason |-> r]
NoVote == Vote(0, "")

\* the rule blocks of make_decision, in source order
VoteRSI(sig) ==
    IF IsNaN(sig.RSI) THEN NoVote
    ELSE IF Lt(sig.RSI, F(30)) THEN Vote(2, "RSI oversold")
    ELSE IF Gt(sig.RSI, F(70)) THEN Vote(-2, "RSI overbought")
    ELSE NoVote

VoteMACDCross(sig) ==
    IF sig.MACD_Cross = "GOLDEN" THEN Vote(2, "MACD golden cross")
    ELSE IF sig.MACD_Cross = "DEAD" THEN Vote(-2, "MACD dead cross")
    ELSE NoVote

VoteMACDZero(sig) ==
    IF Gt(sig.MACD, F(0)) THEN Vote(1, "MACD above zero") ELSE NoVote

VoteMA(sig) ==
    IF sig.MA_Arrange = "BULL" THEN Vote(2, "MA bull arrangement")
    ELSE IF sig.MA_Arrange = "BEAR" THEN Vote(-2, "MA bear arrangement")
    ELSE NoVote

VoteVolume(sig) ==
    IF Gt(sig.Volume_Ratio, Lit_1_5) /\ Gt(sig.Price_Change, F(2))
    THEN Vote(1, "rising on volume")
    ELSE IF Gt(sig.Volume_Ratio, Lit_1_5) /\ Lt(sig.Price_Change, F(-2))
    THEN Vote(-1, "falling on volume")
    ELSE NoVote

VoteBoll(sig) ==
    IF Lt(sig.BB_position, Lit_0_2) THEN Vote(1, "lower Bollinger band")
    ELSE IF Gt(sig.BB_position, Lit_0_8) THEN Vote(-1, "upper Bollinger band")
    ELSE NoVote

SingleRule(i, sig) ==
    CASE i = 1 -> VoteRSI(sig)
      [] i = 2 -> VoteMACDCross(sig)
      [] i = 3 -> VoteMACDZero(sig)
      [] i = 4 -> VoteMA(sig)
      [] i = 5 -> VoteVolume(sig)
      [] i = 6 -> VoteBoll(sig)

SingleRules == 1..6

\* score and reasons accumulated over the rules of `rules` up to rule i
RECURSIVE Tally(_, _, _)
Tally(rules, sig, i) ==
    IF i = 0 THEN [score |-> 0, reasons |-> <<>>]
    ELSE LET acc == Tally(rules, sig, i - 1)
             v == IF i \in rules THEN SingleRule(i, sig) ELSE NoVote
         IN  [score |-> acc.score + v.w,
              reasons |-> IF v.reason = "" THEN acc.reasons
                          ELSE Append(acc.reasons, v.reason)]

\* a variant of the single-axis bands with strict comparisons
SingleDecisionStrict(score) ==
    IF score > 3 THEN "StrongBuy"
    ELSE IF score > 1 THEN "Buy"
    ELSE IF score < -3 THEN "StrongSell"
    ELSE IF score < -1 THEN "Sell"
    ELSE "Hold"

\* the decision bands of make_decision
SingleDecision(score) ==
    IF score >= 3 THEN "StrongBuy"
    ELSE IF score >= 1 THEN "Buy"
    ELSE IF score <= -3 THEN "StrongSell"
    ELSE IF score <= -1 THEN "Sell"
    ELSE "Hold"

make_decision(sig) ==
    LET t == Tally(SingleRules, sig, 6)
    IN  [NoOut EXCEPT !.raised = "none", !.score = t.score,
                      !.reasons = t.reasons,
                      !.decision = SingleDecision(t.score)]

\* --------------------------------------------------------- indicators
\* A column is a sequence of integers in units of 1/SCALE, position-aligned
\* with the series; a derived value at a position is a float (Num or NaN).

\* a function on 1..n as an explicit sequence
AsSeq(f) == SubSeq(f, 1, Len(f))

Col(s, f) == AsSeq([i \in 1..Len(s) |-> s[i][f] * SCALE])

Max2(x, y) == IF x >= y THEN x ELSE y
Min2(x, y) == IF x <= y THEN x ELSE y

\* sum, maximum and minimum of col[lo..hi], by halving the range
RECURSIVE SumOver(_, _, _)
SumOver(col, lo, hi) ==
    IF lo > hi THEN 0
    ELSE IF lo = hi THEN col[lo]
    ELSE LET mid == (lo + hi) \div 2
         IN  SumOver(col, lo, mid) + SumOver(col, mid + 1, hi)

RECURSIVE MaxOver(_, _, _)
MaxOver(col, lo, hi) ==
    IF lo = hi THEN col[lo]
    ELSE LET mid == (lo + hi) \div 2
         IN  Max2(MaxOver(col, lo, mid), MaxOver(col, mid + 1, hi))

RECURSIVE MinOver(_, _, _)
MinOver(col, lo, hi) ==
    IF lo = hi THEN col[lo]
    ELSE LET mid == (lo + hi) \div 2
         IN  Min2(MinOver(col, lo, mid), MinOver(col, mid + 1, hi))

\* col.rolling(window=w).mean() at position i: undefined before w values exist
RollingMean(col, w, i) ==
    IF i < w THEN NaN ELSE Num(TruncDiv(SumOver(col, i - w + 1, i), w))

\* largest r with r*r <= x, by bisection on lo..hi
RECURSIVE ISqrt(_, _, _)
ISqrt(x, lo, hi) ==
    IF lo >= hi THEN lo
    ELSE LET mid == (lo + hi + 1) \div 2
         IN  IF mid * mid <= x THEN ISqrt(x, mid, hi) ELSE ISqrt(x, lo, mid - 1)

\* col.rolling(window=w).std() at position i (sample deviation, ddof = 1)
RollingStd(col, w, i) ==
    IF i < w THEN NaN
    ELSE LET mean == TruncDiv(SumOver(col, i - w + 1, i), w)
             sq == [j \in 1..Len(col) |-> (col[j] - mean) * (col[j] - mean)]
             var == SumOver(sq, i - w + 1, i) \div (w - 1)
         IN  Num(ISqrt(var, 0, 40000))

\* col.ewm(alpha = p/q, adjust=False).mean(): y1 = x1,
\* y[i] = (1 - alpha) * y[i-1] + alpha * x[i]; acc holds y[1..Len(acc)]
RECURSIVE EwmFrom(_, _, _, _)
EwmFrom(col, p, q, acc) ==
    LET i == Len(acc) + 1
    IN  IF i > Len(col) THEN acc
        ELSE IF i = 1 THEN EwmFrom(col, p, q, <<col[1]>>)
        ELSE EwmFrom(col, p, q,
                     Append(acc, TruncDiv((q - p) * acc[i - 1] + p * col[i], q)))

Ewm(col, p, q) == EwmFrom(col, p, q, <<>>)

\* ewm(span = n): alpha = 2 / (n + 1)
EwmSpan(col, n) == Ewm(col, 2, n + 1)

\* calculate_rsi at position i.  delta.where(delta > 0, 0) turns the first,
\* undefined, delta into 0, so the rolling means exist from position 14 on.
calculate_rsi(close, i) ==
    LET delta == [j \in 1..Len(close) |-> IF j = 1 THEN 0 ELSE close[j] - close[j - 1]]
        up == [j \in 1..Len(close) |-> IF delta[j] > 0 THEN delta[j] ELSE 0]
        down == [j \in 1..Len(close) |-> IF delta[j] < 0 THEN -delta[j] ELSE 0]
        gain == RollingMean(up, RSI_PERIOD, i)
        loss == RollingMean(down, RSI_PERIOD, i)
        rs == Div(gain, loss)
    IN  Sub(F(100), Div(F(100), Add(F(1), rs)))

\* calculate_macd: the three columns
MacdLine(close) ==
    LET ema_fast == EwmSpan(close, EMA_FAST)
        ema_slow == EwmSpan(close, EMA_SLOW)
    IN  AsSeq([j \in 1..Len(close) |-> ema_fast[j] - ema_slow[j]])

SignalLine(close) == EwmSpan(MacdLine(close), EMA_SIGNAL)

\* calculate_kdj: rsv is filled with 50 where the window is short or flat
Rsv(s) ==
    LET low == Col(s, "Low")
        high == Col(s, "High")
        close == Col(s, "Close")
    IN  AsSeq([j \in 1..Len(s) |->
            IF j < KDJ_N THEN 50 * SCALE
            ELSE LET lowest_low == MinOver(low, j - KDJ_N + 1, j)
                     highest_high == MaxOver(high, j - KDJ_N + 1, j)
                     r == Div(Num(close[j] - lowest_low),
                              Num(highest_high - lowest_low))
                 IN  IF IsNaN(r) THEN 50 * SCALE ELSE r.v * 100])

KLine(s) == Ewm(Rsv(s), 1, 3)
DLine(s) == Ewm(KLine(s), 1, 3)

\* calculate_atr at position i: the row-wise max skips the undefined
\* previous close of the first bar
calculate_atr(s, i) ==
    LET high == Col(s, "High")
        low == Col(s, "Low")
        close == Col(s, "Close")
        tr == [j \in 1..Len(s) |->
                 IF j = 1 THEN high[j] - low[j]
                 ELSE Max2(high[j] - low[j],
                           Max2(Abs(high[j] - close[j - 1]),
                                Abs(low[j] - close[j - 1])))]
    IN  RollingMean(tr, ATR_PERIOD, i)

NaNRow ==
    [Open |-> NaN, Close |-> NaN, Volume |-> NaN, RSI |-> NaN, MACD |-> NaN,
     Signal |-> NaN, MACD_Hist |-> NaN, K |-> NaN, D |-> NaN, J |-> NaN,
     MA5 |-> NaN, MA20 |-> NaN, MA60 |-> NaN, BB_upper |-> NaN,
     BB_lower |-> NaN, Volume_MA20 |-> NaN, ATR |-> NaN]

\* the row at position i of the frame with its indicator columns; p names
\* the script: stock_trader.py computes no KDJ and no ATR
RowAt(s, i, p) ==
    LET close == Col(s, "Close")
        volume == Col(s, "Volume")
        macd == MacdLine(close)
        sig == SignalLine(close)
        k == KLine(s)
        d == DLine(s)
        ma20 == RollingMean(close, MA_MID, i)
        std == RollingStd(close, MA_MID, i)
        dual == p = "trading_system"
    IN  [Open |-> Num(s[i].Open * SCALE),
         Close |-> Num(close[i]),
         Volume |-> Num(volume[i]),
         RSI |-> calculate_rsi(close, i),
         MACD |-> Num(macd[i]),
         Signal |-> Num(sig[i]),
         MACD_Hist |-> Num(macd[i] - sig[i]),
         K |-> IF dual THEN Num(k[i]) ELSE NaN,
         D |-> IF dual THEN Num(d[i]) ELSE NaN,
         J |-> IF dual THEN Num(3 * k[i] - 2 * d[i]) ELSE NaN,
         MA5 |-> RollingMean(close, MA_SHORT, i),
         MA20 |-> ma20,
         MA60 |-> RollingMean(close, MA_LONG, i),
         BB_upper |-> Add(ma20, MulInt(std, 2)),
         BB_lower |-> Sub(ma20, MulInt(std, 2)),
         Volume_MA20 |-> RollingMean(volume, MA_MID, i),
         ATR |-> IF dual THEN calculate_atr(s, i) ELSE NaN]

\* what the scoring code reads of the frame: its length, df.iloc[-1] and
\* df.iloc[-2]
Frame(s, p) ==
    [len |-> Len(s),
     latest |-> RowAt(s, Len(s), p),
     prev |-> IF Len(s) >= 2 THEN RowAt(s, Len(s) - 1, p) ELSE NaNRow]

\* ------------------------------------------------------ provider data

Bar(o, h, l, c, v) == [Open |-> o, High |-> h, Low |-> l, Close |-> c, Volume |-> v]

Shapes == {"flat", "rising", "falling", "surge"}

\* the i-th of n daily bars of each shape
BarOf(shape, i, n) ==
    CASE shape = "flat" -> Bar(100, 100, 100, 100, 1000)
      [] shape = "rising" -> Bar(98 + i, 99 + i, 98 + i, 99 + i, 1000)
      [] shape = "falling" -> Bar(201 - i, 201 - i, 200 - i, 200 - i, 1000)
      [] shape = "surge" -> IF i = n THEN Bar(100, 105, 100, 105, 1800)
                            ELSE Bar(100, 100, 100, 100, 1000)

Bars(shape, n) == [i \in 1..n |-> BarOf(shape, i, n)]

\* the non-empty series stock.history() may return
ProviderSeries == {Bars(shape, n) : shape \in Shapes, n \in 1..MaxBars}

NoFrame == [len |-> 0, latest |-> NaNRow, prev |-> NaNRow]
NoSignals == [raised |-> "unset"]

Programs == {"trading_system", "stock_trader"}

\* -------------------------------------------------------------- actions

\* trade_signal / analyze_multiple call get_stock_data
CallGetStockData ==
    /\ pc = "start"
    /\ calls' = calls + 1
    /\ pc' = "fetch"
    /\ UNCHANGED <<prog, attempt, sleeps, series, df, signals, out>>

\* the loop bound of stock_trader.get_stock_data; trading_system.get_stock_data
\* asks the provider once
Retries(p) == IF p = "stock_trader" THEN max_retries ELSE 1

\* a variant of the sleep guard that also waits after the last attempt
SleepsAfterAlways(p, idx) == p = "stock_trader" /\ idx < Retries(p)

\* `if attempt < max_retries - 1: time.sleep(retry_delay)`, attempt 0-based
SleepsAfter(p, idx) == p = "stock_trader" /\ idx < Retries(p) - 1

\* where the retry loop goes once `n` attempts are made
AfterAttempt(p, n) == IF n < Retries(p) THEN "fetch" ELSE "none"

\* stock.history() returns a non-empty frame: get_stock_data returns it
AttemptReturnsData ==
    /\ pc = "fetch"
    /\ \E s \in ProviderSeries : series' = s
    /\ attempt' = attempt + 1
    /\ pc' = "indicators"
    /\ UNCHANGED <<prog, sleeps, calls, df, signals, out>>

\* stock.history() returns an empty frame
AttemptReturnsEmpty ==
    /\ pc = "fetch"
    /\ attempt' = attempt + 1
    /\ pc' = IF SleepsAfter(prog, attempt) THEN "sleep"
             ELSE AfterAttempt(prog, attempt + 1)
    /\ UNCHANGED <<prog, sleeps, calls, series, df, signals, out>>

\* stock.history() raises: caught by stock_trader.py only
AttemptRaises ==
    /\ pc = "fetch"
    /\ attempt' = attempt + 1
    /\ pc' = IF prog = "trading_system" THEN "raised"
             ELSE IF SleepsAfter(prog, attempt) THEN "sleep"
             ELSE AfterAttempt(prog, attempt + 1)
    /\ out' = IF prog = "trading_system"
              THEN [NoOut EXCEPT !.raised = "Exception"] ELSE out
    /\ UNCHANGED <<prog, sleeps, calls, series, df, signals>>

\* time.sleep(retry_delay), then the next iteration
Sleep ==
    /\ pc = "sleep"
    /\ sleeps' = sleeps + 1
    /\ pc' = AfterAttempt(prog, attempt)
    /\ UNCHANGED <<prog, attempt, calls, series, df, signals, out>>

\* get_stock_data returned None: the caller reports the error
ReturnError ==
    /\ pc = "none"
    /\ out' = [NoOut EXCEPT !.raised = "none", !.decision = "error"]
    /\ pc' = "error"
    /\ UNCHANGED <<prog, attempt, sleeps, calls, series, df, signals>>

\* calculate_indicators, and the indicator block of generate_signal
ComputeIndicators ==
    /\ pc = "indicators"
    /\ df' = Frame(series, prog)
    /\ pc' = "signal"
    /\ UNCHANGED <<prog, attempt, sleeps, calls, series, signals, out>>

\* the scoring, sizing and decision of generate_signal
GenerateSignal ==
    /\ pc = "signal"
    /\ prog = "trading_system"
    /\ out' = generate_signal(df)
    /\ pc' = IF out'.raised = "none" THEN "done" ELSE "raised"
    /\ UNCHANGED <<prog, attempt, sleeps, calls, series, df, signals>>

AnalyzeSignals ==
    /\ pc = "signal"
    /\ prog = "stock_trader"
    /\ signals' = analyze_signals(df)
    /\ pc' = IF signals'.raised = "none" THEN "decide" ELSE "raised"
    /\ out' = IF signals'.raised = "none" THEN out
              ELSE [NoOut EXCEPT !.raised = signals'.raised]
    /\ UNCHANGED <<prog, attempt, sleeps, calls, series, df>>

MakeDecision ==
    /\ pc = "decide"
    /\ out' = make_decision(signals)
    /\ pc' = "done"
    /\ UNCHANGED <<prog, attempt, sleeps, calls, series, df, signals>>

\* ------------------------------------------- the scripts, from the fetch

InitSeries ==
    /\ prog \in Programs
    /\ pc = "start"
    /\ attempt = 0
    /\ sleeps = 0
    /\ calls = 0
    /\ series = <<>>
    /\ df = NoFrame
    /\ signals = NoSignals
    /\ out = NoOut

NextSeries ==
    \/ CallGetStockData
    \/ AttemptReturnsData
    \/ AttemptReturnsEmpty
    \/ AttemptRaises
    \/ Sleep
    \/ ReturnError
    \/ ComputeIndicators
    \/ GenerateSignal
    \/ AnalyzeSignals
    \/ MakeDecision

SpecSeries == InitSeries /\ [][NextSeries]_vars

\* the steps of the fetch: the call, each provider attempt, each sleep
FetchStep ==
    \/ CallGetStockData
    \/ AttemptReturnsData
    \/ AttemptReturnsEmpty
    \/ AttemptRaises
    \/ Sleep

\* a provider attempt returns or raises and a sleep ends: the fetch, once
\* it can take a step, takes it
FairSeries == SpecSeries /\ WF_vars(FetchStep)

\* ------------------------------- the scoring code, from any latest rows
\* The frames below stand for what the indicator code can leave in the last
\* two rows: a rolling value is defined only once its window is filled (RSI
\* may be undefined later too, on a flat window), MACD and KDJ always are.

HistoryLens == {1, 2, MA_SHORT, RSI_PERIOD, MA_MID, MA_LONG}

Opt(defined, x) == IF defined THEN x ELSE NaN

RsiLevels == {NaN, F(25), F(35), F(50), F(65), F(75)}
KdLevels == {<<10, 50>>, <<50, 50>>, <<90, 50>>, <<50, 90>>, <<50, 10>>}
\* <<latest volume, 20-day volume mean>>
VolLevels == {<<1000, 1000>>, <<1000, 500>>, <<0, 0>>}

\* a window without deviation holds one price only
StdOk(ma5, ma20, std, other) ==
    std = 0 => (ma5 = 100 /\ ma20 = 100 /\ other = 100)

\* a lone row has no rolling value at all; the other price is read only by
\* the volume rule
Relevant(len, vol, other) ==
    /\ (len = 1 \/ vol # <<1000, 500>>) => other = 100

BaseRow(len, rsi, ma5, ma20, std, ma60, vol) ==
    [NaNRow EXCEPT
        !.Open = F(100),
        !.Close = F(100),
        !.Volume = F(vol[1]),
        !.RSI = Opt(len >= RSI_PERIOD, rsi),
        !.MA5 = Opt(len >= MA_SHORT, F(ma5)),
        !.MA20 = Opt(len >= MA_MID, F(ma20)),
        !.MA60 = Opt(len >= MA_LONG, F(ma60)),
        !.BB_upper = Opt(len >= MA_MID, F(ma20 + 2 * std)),
        !.BB_lower = Opt(len >= MA_MID, F(ma20 - 2 * std)),
        !.Volume_MA20 = Opt(len >= MA_MID, F(vol[2]))]

DualFrame(len, rsi, hist, kd, ma5, ma20, std, ma60, vol, prevClose, atr) ==
    [len |-> len,
     latest |-> [BaseRow(len, rsi, ma5, ma20, std, ma60, vol) EXCEPT
                    !.MACD = F(hist),
                    !.Signal = F(0),
                    !.MACD_Hist = F(hist),
                    !.K = F(kd[1]),
                    !.D = F(kd[2]),
                    !.J = F(3 * kd[1] - 2 * kd[2]),
                    !.ATR = Opt(len >= ATR_PERIOD, F(atr))],
     prev |-> IF len = 1 THEN NaNRow ELSE [NaNRow EXCEPT !.Close = F(prevClose)]]

SingleFrame(len, rsi, macd, sig, prevMacd, ma5, ma20, std, ma60, vol, open) ==
    [len |-> len,
     latest |-> [BaseRow(len, rsi, ma5, ma20, std, ma60, vol) EXCEPT
                    !.Open = F(open),
                    !.MACD = F(macd),
                    !.Signal = F(sig),
                    !.MACD_Hist = F(macd - sig)],
     prev |-> IF len = 1 THEN NaNRow
              ELSE [NaNRow EXCEPT !.MACD = F(prevMacd), !.Signal = F(0)]]

Init ==
    /\ prog \in Programs
    /\ pc = "signal"
    /\ attempt = 0
    /\ sleeps = 0
    /\ calls = 0
    /\ series = <<>>
    /\ signals = NoSignals
    /\ out = NoOut
    /\ \/ /\ prog = "trading_system"
          /\ \E len \in HistoryLens, rsi \in RsiLevels, hist \in {-1, 0, 1},
                kd \in KdLevels, ma5 \in {99, 100, 101}, ma20 \in {97, 100, 103},
                std \in {0, 1}, ma60 \in {95, 100, 105}, vol \in VolLevels,
                prevClose \in {99, 100, 101}, atr \in {0, 1, 3000} :
                /\ StdOk(ma5, ma20, std, prevClose)
                /\ Relevant(len, vol, prevClose)
                /\ df = DualFrame(len, rsi, hist, kd, ma5, ma20, std, ma60,
                                  vol, prevClose, atr)
       \/ /\ prog = "stock_trader"
          /\ \E len \in HistoryLens, rsi \in {NaN, F(25), F(50), F(75)},
                macd \in {-1, 0, 1}, sig \in {-2, 0}, prevMacd \in {-1, 0, 1},
                ma5 \in {99, 100, 101}, ma20 \in {97, 100, 103},
                std \in {0, 1}, ma60 \in {95, 100, 105}, vol \in VolLevels,
                open \in {96, 100, 104} :
                /\ StdOk(ma5, ma20, std, 100)
                /\ Relevant(len, vol, open)
                /\ df = SingleFrame(len, rsi, macd, sig, prevMacd, ma5, ma20,
                                    std, ma60, vol, open)

Next ==
    \/ GenerateSignal
    \/ AnalyzeSignals
    \/ MakeDecision

Spec == Init /\ [][Next]_vars

\* ---------------------------------------------------------- properties

Dual == prog = "trading_system"
Single == prog = "stock_trader"

\* the scoring block of generate_signal has run (the sizing may have raised)
DualScored == Dual /\ pc \in {"done", "raised"} /\ df.len > 0
                   /\ out.raised \in {"none", "ValueError", "OverflowError"}
\* generate_signal has computed its decision
DualDecided == Dual /\ pc = "done"
SingleDecided == Single /\ pc = "done"

PrevClose == IF df.len >= 2 THEN df.prev.Close ELSE NaN

BuySide == {"Buy", "StrongBuy"}
Decisions == {"StrongBuy", "Buy", "Hold", "Sell", "StrongSell"}

Rank(d) ==
    CASE d = "StrongSell" -> 0
      [] d = "Sell" -> 1
      [] d = "Hold" -> 2
      [] d = "Buy" -> 3
      [] d = "StrongBuy" -> 4

\* the indicator fields each dual-axis rule reads
DualReads(i) ==
    CASE i = 1 -> {"RSI"}
      [] i = 2 -> {"MACD_Hist"}
      [] i = 3 -> {"K", "J"}
      [] i = 4 -> {"K", "D"}
      [] i = 5 -> {"MA5", "MA20"}
      [] i = 6 -> {"Volume_MA20"}
      [] i = 7 -> {"MA5", "MA20", "MA60"}
      [] i = 8 -> {"BB_lower", "BB_upper"}

\* the indicator fields each single-axis rule reads
SingleReads(i) ==
    CASE i = 1 -> {"RSI"}
      [] i = 2 -> {"MACD", "Signal"}
      [] i = 3 -> {"MACD"}
      [] i = 4 -> {"MA5", "MA20", "MA60"}
      [] i = 5 -> {"Volume_MA20"}
      [] i = 6 -> {"BB_lower", "BB_upper"}

AllDefined(row, fields) == \A f \in fields : ~IsNaN(row[f])

\* C1: in both scoring steps, a rule that reads an undefined indicator field
\* adds nothing and appends no reason: scores and reasons equal those of the
\* rule set with these rules removed.
C1_UndefinedFieldsSkipped ==
    /\ DualScored =>
          LET kept == {i \in DualRules : AllDefined(df.latest, DualReads(i))}
          IN  /\ out.buy_score = SumPts(kept, df.latest, PrevClose, "buy")
              /\ out.sell_score = SumPts(kept, df.latest, PrevClose, "sell")
    /\ SingleDecided =>
          LET kept == {i \in SingleRules : AllDefined(df.latest, SingleReads(i))}
              t == Tally(kept, signals, 6)
          IN  out.score = t.score /\ out.reasons = t.reasons

\* C2: a non-empty series never makes the analysis raise; it ends with a
\* decision record.
C2_NonEmptySeriesNeverRaises ==
    (Len(series) >= 1 /\ pc \in {"done", "raised"}) =>
        (pc = "done" /\ out.raised = "none" /\ out.decision \in Decisions)

\* C3: the position size is strictly positive for every ATR > 0, and an ATR
\* of 0 or undefined raises nothing: generate_signal still returns.
C3_PositionSizeSafe ==
    DualScored =>
        /\ out.raised = "none"
        /\ pc = "done"
        /\ Gt(df.latest.ATR, F(0)) => out.size > 0

\* C4: the flat 30-bar series (100 throughout, volume 1000) yields Hold with
\* buy_score = sell_score = 0, and score = 0 with no reason in the
\* single-axis script.
C4_FlatSeriesHolds ==
    (series = Bars("flat", 30) /\ pc \in {"done", "raised"}) =>
        /\ pc = "done"
        /\ out.decision = "Hold"
        /\ Dual => (out.buy_score = 0 /\ out.sell_score = 0)
        /\ Single => (out.score = 0 /\ out.reasons = <<>>)

\* C5: the decision is monotonic in the score: with the sell score fixed, a
\* larger buy score never turns Buy or StrongBuy into anything weaker, and
\* the single-axis decision rank never decreases as the score grows.
C5_DecisionMonotonic ==
    /\ DualDecided =>
          /\ out.decision = DualDecision(out.buy_score, out.sell_score)
          /\ \A b2 \in out.buy_score..100 :
                LET d2 == DualDecision(b2, out.sell_score)
                IN  /\ out.decision \in BuySide => d2 \in BuySide
                    /\ out.decision = "StrongBuy" => d2 = "StrongBuy"
    /\ SingleDecided =>
          /\ out.decision = SingleDecision(out.score)
          /\ \A s2 \in out.score..9 :
                Rank(SingleDecision(s2)) >= Rank(out.decision)

\* a Buy next to the band edge, and a positive single-axis score
C5_Witness ==
    \/ DualDecided /\ out.decision = "Buy" /\ out.buy_score = 50
    \/ SingleDecided /\ out.decision = "Buy" /\ out.score = 2

\* C6: the decision is one of the five, fixed by ordered bands: single-axis
\* >= 3, 1..2, <= -3, -2..-1, 0; dual-axis the buy bands (>= 55, 35..54)
\* whatever the sell score, the sell bands only below a buy score of 35.
C6_DecisionBands ==
    /\ DualDecided =>
          LET b == out.buy_score
              s == out.sell_score
              d == out.decision
          IN  /\ d \in Decisions
              /\ b >= 55 => d = "StrongBuy"
              /\ (35 <= b /\ b < 55) => d = "Buy"
              /\ (b < 35 /\ s >= 55) => d = "StrongSell"
              /\ (b < 35 /\ 35 <= s /\ s < 55) => d = "Sell"
              /\ (b < 35 /\ s < 35) => d = "Hold"
    /\ SingleDecided =>
          LET s == out.score
              d == out.decision
          IN  /\ d \in Decisions
              /\ s >= 3 => d = "StrongBuy"
              /\ (1 <= s /\ s < 3) => d = "Buy"
              /\ s <= -3 => d = "StrongSell"
              /\ (-3 < s /\ s <= -1) => d = "Sell"
              /\ s = 0 => d = "Hold"

\* a buy decision taken in spite of a sell score in its own band
C6_Witness ==
    DualDecided /\ out.buy_score >= 35 /\ out.sell_score >= 35
        /\ out.decision \in BuySide

\* C7: analyze_trend classifies by strict comparisons; a tie never yields
\* the stronger category.
C7_TrendStrict ==
    DualScored =>
        LET r == df.latest
            def520 == ~IsNaN(r.MA5) /\ ~IsNaN(r.MA20)
            def60 == ~IsNaN(r.MA60)
            up == def520 /\ r.MA5.v > r.MA20.v
            down == def520 /\ r.MA5.v < r.MA20.v
            above60 == def520 /\ def60 /\ r.MA20.v > r.MA60.v
            below60 == def520 /\ def60 /\ r.MA20.v < r.MA60.v
        IN  /\ out.trend \in {"StrongUp", "Up", "Sideways", "Down", "StrongDown"}
            /\ (up /\ above60) <=> out.trend = "StrongUp"
            /\ (up /\ ~above60) <=> out.trend = "Up"
            /\ (down /\ below60) <=> out.trend = "StrongDown"
            /\ (down /\ ~below60) <=> out.trend = "Down"
            /\ (def520 /\ r.MA5.v = r.MA20.v) => out.trend = "Sideways"
            /\ (def520 /\ def60 /\ r.MA20.v = r.MA60.v) =>
                   out.trend \notin {"StrongUp", "StrongDown"}

\* MA5 above MA20 with MA20 tied to MA60: Up, not StrongUp
C7_Witness ==
    DualScored /\ out.trend = "Up" /\ ~IsNaN(df.latest.MA60)
        /\ df.latest.MA20 = df.latest.MA60

\* C8: when the decision is computed the dual-axis scores lie in 0..100 and
\* the single-axis score in -9..9.
C8_ScoreRanges ==
    /\ DualDecided =>
          /\ 0 <= out.buy_score /\ out.buy_score <= 100
          /\ 0 <= out.sell_score /\ out.sell_score <= 100
    /\ SingleDecided => (-9 <= out.score /\ out.score <= 9)

\* several rules have voted on each side
C8_Witness ==
    \/ DualDecided /\ out.buy_score >= 55 /\ out.sell_score >= 20
    \/ SingleDecided /\ out.score <= -6

\* C10: every dual-axis rule adds to at most one axis, the MACD, K-versus-D
\* and MA5-versus-MA20 rules to exactly one, so 35 <= buy_score + sell_score
\* <= 95 at the decision; Hold means neither axis reached 35.
C10_ScoreSum ==
    DualDecided =>
        /\ \A i \in DualRules :
              LET r == DualRule(i, df.latest, PrevClose)
              IN  /\ r.buy = 0 \/ r.sell = 0
                  /\ r.buy >= 0 /\ r.sell >= 0
        /\ DualRule(2, df.latest, PrevClose).buy
             + DualRule(2, df.latest, PrevClose).sell = 15
        /\ DualRule(4, df.latest, PrevClose).buy
             + DualRule(4, df.latest, PrevClose).sell = 10
        /\ DualRule(5, df.latest, PrevClose).buy
             + DualRule(5, df.latest, PrevClose).sell = 10
        /\ 35 <= out.buy_score + out.sell_score
        /\ out.buy_score + out.sell_score <= 95
        /\ out.decision = "Hold" =>
              (out.buy_score < 35 /\ out.sell_score < 35)

\* a Hold whose points are split between the axes
C10_Witness ==
    DualDecided /\ out.decision = "Hold" /\ out.buy_score > 0
        /\ out.sell_score > 0 /\ out.buy_score + out.sell_score >= 35

\* the retry loop of stock_trader.get_stock_data
InLoop == pc \in {"start", "fetch", "sleep"}

C9_RetryInvariant ==
    Single =>
        /\ calls <= 1
        /\ attempt <= max_retries
        /\ pc = "fetch" => (sleeps = attempt /\ attempt < max_retries)
        /\ pc = "sleep" => (sleeps = attempt - 1 /\ attempt < max_retries)
        /\ (~InLoop) => (calls = 1 /\ sleeps = attempt - 1)
        /\ pc \in {"none", "error"} => (attempt = max_retries /\ series = <<>>)
        /\ pc = "error" =>
              (df = NoFrame /\ signals = NoSignals /\ out.decision = "error")
        /\ series # <<>> => pc \notin {"none", "error", "fetch", "sleep"}

C9_NoAttemptAfterData ==
    (Single /\ ~InLoop) =>
        (attempt' = attempt /\ sleeps' = sleeps /\ calls' = calls)

\* C9: trade_signal calls get_stock_data once; the call ends after at most
\* max_retries attempts, returns the first non-empty series without another
\* attempt, sleeps only between two attempts, and returns None after
\* max_retries failures, on which trade_signal returns an error record and
\* computes nothing.
C9_FetchTerminates ==
    /\ []C9_RetryInvariant
    /\ [][C9_NoAttemptAfterData]_vars
    /\ <>(~InLoop)

\* every attempt failed: four sleeps, the error record
C9_Witness ==
    Single /\ pc = "error" /\ attempt = max_retries
        /\ sleeps = max_retries - 1

====
